---- MODULE Spec2Model ----
(***************************************************************************)
(* XMODEM sender and receiver of carveracontroller/XMODEM.py as two state  *)
(* machines over a duplex byte transport.  Byte strings are sequences of   *)
(* integers 0..255; a transport read that times out yields None.           *)
(***************************************************************************)
EXTENDS Integers, Sequences, FiniteSets, TLC

\* ------------------------------------------------------------ protocol bytes
SOH == <<1>>
STX == <<2>>
EOT == <<4>>
ACK == <<6>>
NAK == <<21>>
CAN == <<22>>
CRC == <<67>>
\* getc's "None if a timeout occured"; also the value of a failed call
None == <<>>
\* the default pad, b'\x1a'
pad == 26

\* ------------------------------------------------------------------- bounds
\* retry budget passed to send and recv
Retry == 2
\* largest number of data blocks of a short source stream
MaxBlocks == 3
\* number of full data blocks of the long source stream (sequence wraparound)
WrapBlocks == 256
\* longest byte string given to calc_checksum and calc_crc, hand-picked ones aside
MaxLen == 2

\* ----------------------------------------------------------- byte arithmetic
Min(a, b) == IF a <= b THEN a ELSE b

RECURSIVE BitXor(_, _)
BitXor(a, b) ==
    IF a = 0 THEN b
    ELSE IF b = 0 THEN a
    ELSE ((a + b) % 2) + 2 * BitXor(a \div 2, b \div 2)

RECURSIVE BitOr(_, _)
BitOr(a, b) ==
    IF a = 0 THEN b
    ELSE IF b = 0 THEN a
    ELSE (IF (a % 2) + (b % 2) > 0 THEN 1 ELSE 0) + 2 * BitOr(a \div 2, b \div 2)

\* Python s[a:b] for 0 <= a, clamped to the length of s
Slice(s, a, b) == SubSeq(s, a + 1, Min(b, Len(s)))

\* Python bytes.ljust(width, fill)
ljust(s, width, fill) ==
    IF Len(s) >= width THEN s
    ELSE s \o [i \in 1..(width - Len(s)) |-> fill]

RECURSIVE SumRange(_, _, _)
SumRange(data, lo, hi) ==
    IF lo > hi THEN 0
    ELSE IF lo = hi THEN data[lo]
    ELSE LET mid == (lo + hi) \div 2
         IN  CHOOSE sum \in {left + SumRange(data, mid + 1, hi) :
                                left \in {SumRange(data, lo, mid)}} : TRUE

\* ---------------------------------------------------------- checksum and CRC
crctable == <<
    0, 4129, 8258, 12387, 16516, 20645, 24774, 28903,
    33032, 37161, 41290, 45419, 49548, 53677, 57806, 61935,
    4657, 528, 12915, 8786, 21173, 17044, 29431, 25302,
    37689, 33560, 45947, 41818, 54205, 50076, 62463, 58334,
    9314, 13379, 1056, 5121, 25830, 29895, 17572, 21637,
    42346, 46411, 34088, 38153, 58862, 62927, 50604, 54669,
    13907, 9842, 5649, 1584, 30423, 26358, 22165, 18100,
    46939, 42874, 38681, 34616, 63455, 59390, 55197, 51132,
    18628, 22757, 26758, 30887, 2112, 6241, 10242, 14371,
    51660, 55789, 59790, 63919, 35144, 39273, 43274, 47403,
    23285, 19156, 31415, 27286, 6769, 2640, 14899, 10770,
    56317, 52188, 64447, 60318, 39801, 35672, 47931, 43802,
    27814, 31879, 19684, 23749, 11298, 15363, 3168, 7233,
    60846, 64911, 52716, 56781, 44330, 48395, 36200, 40265,
    32407, 28342, 24277, 20212, 15891, 11826, 7761, 3696,
    65439, 61374, 57309, 53244, 48923, 44858, 40793, 36728,
    37256, 33193, 45514, 41451, 53516, 49453, 61774, 57711,
    4224, 161, 12482, 8419, 20484, 16421, 28742, 24679,
    33721, 37784, 41979, 46042, 49981, 54044, 58239, 62302,
    689, 4752, 8947, 13010, 16949, 21012, 25207, 29270,
    46570, 42443, 38312, 34185, 62830, 58703, 54572, 50445,
    13538, 9411, 5280, 1153, 29798, 25671, 21540, 17413,
    42971, 47098, 34713, 38840, 59231, 63358, 50973, 55100,
    9939, 14066, 1681, 5808, 26199, 30326, 17941, 22068,
    55628, 51565, 63758, 59695, 39368, 35305, 47498, 43435,
    22596, 18533, 30726, 26663, 6336, 2273, 14466, 10403,
    52093, 56156, 60223, 64286, 35833, 39896, 43963, 48026,
    19061, 23124, 27191, 31254, 2801, 6864, 10931, 14994,
    64814, 60687, 56684, 52557, 48554, 44427, 40424, 36297,
    31782, 27655, 23652, 19525, 15522, 11395, 7392, 3265,
    61215, 65342, 53085, 57212, 44955, 49082, 36825, 40952,
    28183, 32310, 20053, 24180, 11923, 16050, 3793, 7920
>>

\* a checksum that forgets the value it was asked to update
calc_checksum_unseeded(data, checksum) == SumRange(data, 1, Len(data)) % 256

calc_checksum(data, checksum) ==
    CHOOSE value \in {(SumRange(bytes, 1, Len(bytes)) + checksum) % 256 :
                         bytes \in {data}} : TRUE

\* an iteration that takes the table index from the low byte of the CRC
crc_step_low_index(crc, char) ==
    LET crctbl_idx == BitXor(crc % 256, char) % 256
    IN  BitXor((crc * 256) % 65536, crctable[crctbl_idx + 1]) % 65536

\* one iteration of the loop of calc_crc
crc_step(crc, char) ==
    CHOOSE next \in {BitXor((crc * 256) % 65536, crctable[crctbl_idx + 1]) % 65536 :
                       crctbl_idx \in {BitXor(crc \div 256, char) % 256}} : TRUE

\* the loop of calc_crc over data[lo..hi], folded left to right
RECURSIVE crc_range(_, _, _, _)
crc_range(data, lo, hi, crc) ==
    IF lo > hi THEN crc
    ELSE IF lo = hi THEN CHOOSE next \in {crc_step(seed, char) : seed \in {crc}, char \in {data[lo]}} : TRUE
    ELSE LET mid == (lo + hi) \div 2
         IN  CHOOSE right \in {crc_range(data, mid + 1, hi, left) :
                                  left \in {crc_range(data, lo, mid, crc)}} : TRUE

calc_crc(data, crc) ==
    CHOOSE value \in {crc_range(bytes, 1, Len(bytes), seed) % 65536 :
                         bytes \in {data}, seed \in {crc}} : TRUE

\* ------------------------------------------------------------ packet framing
packet_size_of(mode) == IF mode = "xmodem" THEN 128 ELSE 8192

is_stx_of(packet_size) == IF packet_size > 255 THEN 1 ELSE 0

make_send_header(packet_size, sequence) ==
    (IF packet_size = 128 THEN SOH ELSE STX) \o <<sequence, 255 - sequence>>

\* a trailer with the two bytes of the CRC in the other order
make_send_checksum_low_first(crc_mode, data) ==
    IF crc_mode = 1
    THEN LET crc == calc_crc(data, 0) IN <<crc % 256, crc \div 256>>
    ELSE <<calc_checksum(data, 0)>>

make_send_checksum(crc_mode, data) ==
    IF crc_mode = 1
    THEN LET crc == calc_crc(data, 0) IN <<crc \div 256, crc % 256>>
    ELSE <<calc_checksum(data, 0)>>

\* the length prefix and the padded content of a block (send, lines 323-326)
make_send_data(is_stx, packet_size, data) ==
    IF is_stx = 0
    THEN <<Len(data) % 256>> \o ljust(data, packet_size, pad)
    ELSE <<Len(data) \div 256, Len(data) % 256>> \o ljust(data, packet_size, pad)

\* the packet send writes for a block (lines 322-332)
send_packet(packet_size, sequence, crc_mode, data) ==
    CHOOSE packet \in
        {make_send_header(packet_size, sequence) \o body \o make_send_checksum(crc_mode, body) :
            body \in {make_send_data(is_stx_of(packet_size), packet_size, data)}} : TRUE

\* a verification that accepts every trailer
verify_recv_any_trailer(crc_mode, data) ==
    [valid |-> TRUE, data |-> SubSeq(data, 1, Len(data) - 1 - crc_mode)]

verify_recv_checksum(crc_mode, data) ==
    IF crc_mode = 1
    THEN LET their_sum == data[Len(data) - 1] * 256 + data[Len(data)]
             body == SubSeq(data, 1, Len(data) - 2)
         IN  [valid |-> their_sum = calc_crc(body, 0), data |-> body]
    ELSE LET their_sum == data[Len(data)]
             body == SubSeq(data, 1, Len(data) - 1)
         IN  [valid |-> their_sum = calc_checksum(body, 0), data |-> body]

\* abort(count): count CAN bytes
abort(count) == [i \in 1..count |-> [bytes |-> CAN, kind |-> "ctl"]]

\* -------------------------------------------------------------------- state
VARIABLES
    inp,      \* the arguments of the two calls: stream (its length and the rule
              \* that gives its bytes), md5 of send, md5 of recv
    snd,      \* the sender: its XMODEM object (mode, canceled) and the locals of send
    rcv,      \* the receiver: its XMODEM object (mode, mode_set, canceled) and the locals of recv
    s2r,      \* bytes written by the sender and not yet read by the receiver
    r2s,      \* bytes written by the receiver and not yet read by the sender
    sink,     \* what recv has written to its stream: how many bytes, and whether
              \* they are the first bytes of the stream of send
    s_log,    \* every putc of the sender, in order
    r_log,    \* every putc of the receiver, in order
    env       \* the transport: what is connected, and what it may still do

vars == <<inp, snd, rcv, s2r, r2s, sink, s_log, r_log, env>>

\* a putc: the bytes, and what they are ("ctl", "md5" block, "data" block)
Put(bytes, kind) == [bytes |-> bytes, kind |-> kind]

RECURSIVE Flat(_)
Flat(out) == IF out = <<>> THEN <<>> ELSE Head(out).bytes \o Flat(Tail(out))

\* what the logs keep of a putc: its first three bytes, its length, its kind
LogEntry(p) == [head |-> SubSeq(p.bytes, 1, Min(3, Len(p.bytes))), len |-> Len(p.bytes), kind |-> p.kind]

Logged(out) == [i \in 1..Len(out) |-> LogEntry(out[i])]

\* the byte of the stream at offset i, counted from 1
stream_byte(stream, i) == (stream.k * i + pad) % 256

\* stream.read(size) with pos bytes already read (line 315)
stream_read(stream, pos, size) ==
    [i \in 1..Min(size, stream.len - pos) |-> stream_byte(stream, pos + i)]

\* stream.write(wr) of recv (line 625): the sink grows by wr, and stays equal
\* to the first bytes of the stream of send only when wr continues them
stream_write(snk, wr, stream) ==
    [len |-> snk.len + Len(wr),
     same |-> snk.same /\ wr = stream_read(stream, snk.len, Len(wr))]

\* ------------------------------------------------------------------- sender
send_return(st, value, exit) == [st EXCEPT !.pc = "done", !.ret = value, !.exit = exit]

\* lines 364-367: write EOT and wait for its ACK
send_eot(st) == [st |-> [st EXCEPT !.pc = "eot"], out |-> <<Put(EOT, "ctl")>>]

\* a numbering that keeps 0 for the md5 block and goes from 255 to 1
send_next_sequence_skip_zero(sequence) == IF sequence = 255 THEN 1 ELSE sequence + 1

\* line 362
send_next_sequence(sequence) == (sequence + 1) % 256

\* a budget that is used up one error earlier
send_retry_reached(error_count) == error_count >= Retry

\* a role that never gives up
send_retry_never(error_count) == FALSE

\* lines 286, 353, 376: the retry budget is used up
send_retry_exceeded(error_count) == error_count > Retry

\* lines 299-332: the top of the block loop, up to the first write of the block
send_loop(st0, stream, md5) ==
    LET st == [st0 EXCEPT !.tops = @ + 1] IN
    IF st.canceled
    THEN [st |-> [st EXCEPT !.pc = "drain"],
          out |-> <<Put(CAN, "ctl"), Put(CAN, "ctl"), Put(CAN, "ctl")>>]
    ELSE LET packet_size == packet_size_of(st.mode)
             is_stx == is_stx_of(packet_size)
             from_md5 == (~st.md5_sent) /\ st.sequence = 0
             data == IF from_md5 THEN md5 ELSE stream_read(stream, st.pos, packet_size)
             st1 == IF from_md5
                    THEN [st EXCEPT !.md5_sent = TRUE]
                    ELSE [st EXCEPT !.pos = @ + Len(data), !.total_packets = @ + 1]
             kind == IF from_md5 THEN "md5" ELSE "data"
         IN  IF data = <<>>
             THEN send_eot(st1)
             ELSE CHOOSE written \in
                      {[st |-> [st1 EXCEPT !.pc = "resp", !.packet = packet, !.kind = kind, !.tx = 1],
                        out |-> <<Put(packet, kind)>>] :
                          packet \in {send_packet(packet_size, st.sequence, st.crc_mode, data)}} : TRUE

\* lines 292-297
send_begin(st) ==
    [st EXCEPT !.error_count = 0, !.success_count = 0, !.total_packets = 0,
               !.sequence = 0, !.md5_sent = FALSE]

\* a sender that takes every request for a CRC request
start_crc_mode_always(char) == 1

\* lines 258-265: the integrity mode the request of the receiver selects
start_crc_mode(char) == IF char = CRC THEN 1 ELSE 0

\* lines 256-290: one iteration of the start sequence, char is the byte read
\* or None
send_start(st, char, stream, md5) ==
    IF char = NAK \/ char = CRC
    THEN send_loop(send_begin([st EXCEPT !.crc_mode = start_crc_mode(char)]), stream, md5)
    ELSE IF char = CAN /\ st.cancel = 1
    THEN [st |-> send_return(st, None, "can_start"), out |-> <<>>]
    ELSE IF char = EOT
    THEN [st |-> send_return(st, <<FALSE>>, "eot_start"), out |-> <<>>]
    ELSE LET st1 == IF char = CAN THEN [st EXCEPT !.cancel = 1] ELSE st
             st2 == [st1 EXCEPT !.error_count = @ + 1]
         IN  IF send_retry_exceeded(st2.error_count)
             THEN [st |-> send_return(st2, <<FALSE>>, "retry_start"), out |-> abort(2)]
             ELSE [st |-> st2, out |-> <<>>]

\* lines 333-362: the response to a block, char is the byte read or None
send_resp(st, char, stream, md5) ==
    IF char = ACK
    THEN send_loop([st EXCEPT !.success_count = @ + 1, !.error_count = 0,
                              !.sequence = send_next_sequence(@)], stream, md5)
    ELSE IF char = CAN /\ st.cancel = 1
    THEN [st |-> send_return(st, <<FALSE>>, "can_block"), out |-> <<>>]
    ELSE LET st1 == IF char = CAN THEN [st EXCEPT !.cancel = 1] ELSE st
             st2 == [st1 EXCEPT !.error_count = @ + 1]
         IN  IF send_retry_exceeded(st2.error_count)
             THEN [st |-> send_return(st2, <<FALSE>>, "retry_block"), out |-> abort(2)]
             ELSE [st |-> [st2 EXCEPT !.tx = @ + 1], out |-> <<Put(st.packet, st.kind)>>]

\* lines 370-382: the response to EOT
send_eot_resp(st, char) ==
    IF char = ACK
    THEN [st |-> send_return(st, <<TRUE>>, "ack_eot"), out |-> <<>>]
    ELSE LET st1 == [st EXCEPT !.error_count = @ + 1]
         IN  IF send_retry_exceeded(st1.error_count)
             THEN [st |-> send_return(st1, <<FALSE>>, "retry_eot"), out |-> abort(2)]
             ELSE send_eot(st1)

\* lines 304-308: drain after a local cancel
send_drain(st, char) ==
    IF char # None
    THEN [st |-> st, out |-> <<>>]
    ELSE [st |-> send_return([st EXCEPT !.canceled = FALSE], None, "user_cancel"), out |-> <<>>]

\* ----------------------------------------------------------------- receiver
recv_return(st, value, exit) == [st EXCEPT !.pc = "done", !.ret = value, !.exit = exit]

Res(st, out) == [st |-> st, out |-> out, wr |-> <<>>]

\* a start loop that asks for CRC mode one error longer
recv_start_top_late_fallback(st, put_ok) ==
    IF st.error_count >= Retry
    THEN [st |-> [st EXCEPT !.pc = "done", !.ret = None, !.exit = "retry_start"],
          out |-> abort(2), wr |-> <<>>]
    ELSE IF st.crc_mode = 1 /\ st.error_count <= Retry \div 2
    THEN [st |-> [st EXCEPT !.pc = "start"],
          out |-> <<[bytes |-> CRC, kind |-> "ctl"]>>, wr |-> <<>>]
    ELSE [st |-> [st EXCEPT !.pc = "start", !.crc_mode = 0],
          out |-> <<[bytes |-> NAK, kind |-> "ctl"]>>, wr |-> <<>>]

\* lines 444-465: the top of the start loop, up to its read; put_ok is whether
\* the putc of the request was accepted
recv_start_top(st, put_ok) ==
    IF st.error_count >= Retry
    THEN Res(recv_return(st, None, "retry_start"), abort(2))
    ELSE IF st.crc_mode = 1 /\ st.error_count < Retry \div 2
    THEN Res([st EXCEPT !.pc = "start", !.error_count = IF put_ok THEN @ ELSE @ + 1],
             <<Put(CRC, "ctl")>>)
    ELSE Res([st EXCEPT !.pc = "start", !.crc_mode = 0,
                        !.error_count = IF put_ok THEN @ ELSE @ + 1],
             <<Put(NAK, "ctl")>>)

\* lines 493-512
recv_begin(st) ==
    LET packet_size == packet_size_of(st.mode)
    IN  [st EXCEPT !.error_count = 0, !.income_size = 0, !.packet_size = packet_size,
                   !.is_stx = is_stx_of(packet_size), !.sequence = 0, !.cancel = 0,
                   !.retrans = Retry + 1, !.md5_received = FALSE]

\* lines 524-576: the loop on the start byte held in st.char
RECURSIVE recv_inner(_)
recv_inner(st) ==
    IF st.char = SOH \/ st.char = STX
    THEN Res([st EXCEPT !.error_count = 0, !.cancel = 0, !.pc = "seq1"], <<>>)
    ELSE IF st.char = EOT
    THEN Res(recv_return(st, <<st.income_size>>, "eot"), <<Put(ACK, "ctl")>>)
    ELSE IF st.char = CAN
    THEN IF st.cancel = 1
         THEN Res(recv_return(st, None, "can_block"), <<>>)
         ELSE recv_inner([st EXCEPT !.cancel = 1])
    ELSE IF st.char = None
    THEN LET st1 == [st EXCEPT !.error_count = @ + 1]
         IN  IF st1.error_count > Retry
             THEN Res(recv_return(st1, None, "retry_char"), abort(2))
             ELSE Res([st1 EXCEPT !.pc = "rd_inner"], <<>>)
    ELSE LET st1 == [st EXCEPT !.error_count = @ + 1]
         IN  IF st1.error_count > Retry
             THEN Res(recv_return(st1, None, "retry_junk"), abort(2))
             ELSE Res([st1 EXCEPT !.pc = "junk_drain"], <<>>)

\* lines 514-523, then the loop on the start byte
recv_outer(st0) ==
    LET st == [st0 EXCEPT !.tops = @ + 1] IN
    IF st.canceled
    THEN Res([st EXCEPT !.pc = "cdrain"],
             <<Put(CAN, "ctl"), Put(CAN, "ctl"), Put(CAN, "ctl")>>)
    ELSE recv_inner(st)

\* lines 465-491: what the start loop does with the byte read, then its next request
recv_start(st, char, put_ok) ==
    IF char = None
    THEN recv_start_top([st EXCEPT !.char = char, !.error_count = @ + 1], put_ok)
    ELSE IF char = SOH
    THEN recv_outer(recv_begin(
             IF st.mode_set THEN [st EXCEPT !.char = char]
             ELSE [st EXCEPT !.char = char, !.mode = "xmodem", !.mode_set = TRUE]))
    ELSE IF char = STX
    THEN recv_outer(recv_begin(
             IF st.mode_set THEN [st EXCEPT !.char = char]
             ELSE [st EXCEPT !.char = char, !.mode = "xmodem8k", !.mode_set = TRUE]))
    ELSE IF char = CAN
    THEN IF st.cancel = 1
         THEN Res(recv_return([st EXCEPT !.char = char], None, "can_start"), <<>>)
         ELSE recv_start_top([st EXCEPT !.char = char, !.cancel = 1], put_ok)
    ELSE recv_start_top([st EXCEPT !.char = char, !.error_count = @ + 1], put_ok)

\* lines 553 and 570: the next start byte, read inside the loop on the start byte
recv_rd_inner(st, char) == recv_inner([st EXCEPT !.char = char])

\* lines 632 and 647: the next start byte, then the top of the block loop
recv_rd_outer(st, char) == recv_outer([st EXCEPT !.char = char])

\* lines 566-570: discard input until a read times out, then NAK
recv_junk_drain(st, char) ==
    IF char # None
    THEN Res(st, <<>>)
    ELSE Res([st EXCEPT !.pc = "rd_inner"], <<Put(NAK, "ctl")>>)

\* lines 577-582
recv_seq1(st, char) ==
    IF char = None
    THEN Res([st EXCEPT !.pc = "skip"], <<>>)
    ELSE Res([st EXCEPT !.seq1 = char[1], !.pc = "seq2"], <<>>)

\* a receiver that takes any block whose two sequence bytes agree
recv_seq2_any_sequence(st, char) ==
    IF char = <<>>
    THEN [st |-> [st EXCEPT !.pc = "skip"], out |-> <<>>, wr |-> <<>>]
    ELSE IF st.seq1 = 255 - char[1]
    THEN [st |-> [st EXCEPT !.seq2 = 255 - char[1], !.pc = "data"], out |-> <<>>, wr |-> <<>>]
    ELSE [st |-> [st EXCEPT !.seq2 = 255 - char[1], !.pc = "skip"], out |-> <<>>, wr |-> <<>>]

\* lines 583-602
recv_seq2(st, char) ==
    IF char = None
    THEN Res([st EXCEPT !.pc = "skip"], <<>>)
    ELSE LET seq2 == 255 - char[1]
         IN  IF st.seq1 = seq2 /\ seq2 = st.sequence
             THEN Res([st EXCEPT !.seq2 = seq2, !.pc = "data"], <<>>)
             ELSE Res([st EXCEPT !.seq2 = seq2, !.pc = "skip"], <<>>)

\* the bytes recv asks for when the sequence is wrong (line 597) and right (602)
skip_size(st) == 2 + st.packet_size + 1 + st.crc_mode
data_size(st) == 1 + st.is_stx + st.packet_size + 1 + st.crc_mode

\* line 597: the result of the read is dropped
recv_skip(st, data) == Res([st EXCEPT !.pc = "purge"], <<>>)

\* a receiver that takes the whole block, pad included, for content
data_len_whole_block(is_stx, data) == Len(data) - 1 - is_stx

\* the declared length of a received block (line 624)
data_len_of(is_stx, data) ==
    IF is_stx = 1 THEN BitOr(data[1] * 256, data[2]) ELSE data[1]

\* the bytes of a block that recv writes to its stream (lines 624-625)
block_content(is_stx, data) ==
    Slice(data, 1 + is_stx, data_len_of(is_stx, data) + 1 + is_stx)

\* what recv adds to income_size for one block (line 623)
income_of(is_stx, data) == Len(data) - 1 - is_stx

\* a numbering that does not wrap
recv_next_sequence_unbounded(sequence) == sequence + 1

\* line 630
recv_next_sequence(sequence) == (sequence + 1) % 256

\* a comparison that takes the length prefix of block 0 into the digest
md5_matches_from_prefix(md5, is_stx, data) == md5 = Slice(data, is_stx, 32 + is_stx)

\* line 615: the md5 passed to recv against the content of block 0
md5_matches(md5, is_stx, data) == md5 = Slice(data, 1 + is_stx, 33 + is_stx)

\* lines 602-633: the block read, data is what getc returned
recv_data(st, data, md5) ==
    IF data = None
    THEN Res([st EXCEPT !.pc = "purge"], <<>>)
    ELSE CHOOSE verified \in {
             IF ~v.valid
             THEN Res([st EXCEPT !.pc = "purge"], <<>>)
             ELSE LET st1 == [st EXCEPT !.retrans = Retry + 1]
                  IN  IF st1.sequence = 0 /\ ~st1.md5_received
                      THEN IF md5_matches(md5, st1.is_stx, v.data)
                           THEN Res([st1 EXCEPT !.md5_received = TRUE, !.pc = "md5_drain"],
                                    <<Put(CAN, "ctl"), Put(CAN, "ctl"), Put(CAN, "ctl")>>)
                           ELSE Res([st1 EXCEPT !.md5_received = TRUE,
                                                !.sequence = recv_next_sequence(@),
                                                !.pc = "rd_outer"],
                                    <<Put(ACK, "ctl")>>)
                      ELSE [st |-> [st1 EXCEPT
                                          !.income_size = @ + income_of(st1.is_stx, v.data),
                                          !.success_count = @ + 1,
                                          !.sequence = recv_next_sequence(@),
                                          !.pc = "rd_outer"],
                                out |-> <<Put(ACK, "ctl")>>,
                            wr |-> block_content(st1.is_stx, v.data)] :
             v \in {verify_recv_checksum(st.crc_mode, data)}} : TRUE

\* lines 619-621: drain after the md5 matched
recv_md5_drain(st, char) ==
    IF char # None
    THEN Res(st, <<>>)
    ELSE Res(recv_return(st, <<0>>, "md5_equal"), <<>>)

\* a purge that gives up when one request is still left
recv_purge_gives_up_early(st, char) ==
    IF char # <<>>
    THEN [st |-> st, out |-> <<>>, wr |-> <<>>]
    ELSE IF st.retrans - 1 <= 1
    THEN [st |-> [st EXCEPT !.retrans = @ - 1, !.pc = "done", !.ret = <<>>,
                            !.exit = "retry_block"],
          out |-> abort(2), wr |-> <<>>]
    ELSE [st |-> [st EXCEPT !.retrans = @ - 1, !.pc = "rd_outer"],
          out |-> <<[bytes |-> NAK, kind |-> "ctl"]>>, wr |-> <<>>]

\* lines 635-648: purge, then request the retransmission
recv_purge(st, char) ==
    IF char # None
    THEN Res(st, <<>>)
    ELSE LET st1 == [st EXCEPT !.retrans = @ - 1]
         IN  IF st1.retrans <= 0
             THEN Res(recv_return(st1, None, "retry_block"), abort(2))
             ELSE Res([st1 EXCEPT !.pc = "rd_outer"], <<Put(NAK, "ctl")>>)

\* a drain that stops after its first read, whatever that read returned
recv_cdrain_one_read(st, char) ==
    Res(recv_return([st EXCEPT !.canceled = FALSE], <<-1>>, "user_cancel"), <<>>)

\* lines 519-523: drain after a local cancel
recv_cdrain(st, char) ==
    IF char # None
    THEN Res(st, <<>>)
    ELSE Res(recv_return([st EXCEPT !.canceled = FALSE], <<-1>>, "user_cancel"), <<>>)

\* ------------------------------------------------------------------ actions
Rest(ch, n) == SubSeq(ch, n + 1, Len(ch))

\* the sender consumed n bytes and ran to its next read
SendApply(r, n) ==
    \E res \in {r} :
        /\ snd' = res.st
        /\ r2s' = Rest(r2s, n)
        /\ s2r' = IF env.link = "pair" THEN s2r \o Flat(res.out) ELSE s2r
        /\ s_log' = s_log \o Logged(res.out)
        /\ UNCHANGED <<inp, rcv, sink, r_log, env>>

\* the receiver consumed n bytes and ran to its next read
RecvApply(r, n) ==
    \E res \in {r} :
        /\ rcv' = res.st
        /\ s2r' = Rest(s2r, n)
        /\ r2s' = IF env.link = "pair" THEN r2s \o Flat(res.out) ELSE r2s
        /\ r_log' = r_log \o Logged(res.out)
        /\ sink' = stream_write(sink, res.wr, inp.stream)
        /\ UNCHANGED <<inp, snd, s_log, env>>

\* send is called: lines 240-255
SendCall ==
    /\ snd.pc = "init"
    /\ snd' = [snd EXCEPT !.pc = "start", !.error_count = 0, !.crc_mode = 0, !.cancel = 0]
    /\ UNCHANGED <<inp, rcv, s2r, r2s, sink, s_log, r_log, env>>

\* recv is called: lines 439-465
RecvCall ==
    /\ rcv.pc = "init"
    /\ RecvApply(recv_start_top([rcv EXCEPT !.success_count = 0, !.error_count = 0,
                                            !.cancel = 0], TRUE), 0)

SendStartRead ==
    /\ snd.pc = "start"
    /\ r2s # <<>>
    /\ SendApply(send_start(snd, <<Head(r2s)>>, inp.stream, inp.md5_s), 1)

SendRespRead ==
    /\ snd.pc = "resp"
    /\ r2s # <<>>
    /\ SendApply(send_resp(snd, <<Head(r2s)>>, inp.stream, inp.md5_s), 1)

SendEotRead ==
    /\ snd.pc = "eot"
    /\ r2s # <<>>
    /\ SendApply(send_eot_resp(snd, <<Head(r2s)>>), 1)

\* the drain loop reads a byte when there is one and times out when there is none
SendDrain ==
    /\ snd.pc = "drain"
    /\ IF r2s # <<>>
       THEN SendApply(send_drain(snd, <<Head(r2s)>>), 1)
       ELSE SendApply(send_drain(snd, None), 0)

RecvStartRead ==
    /\ rcv.pc = "start"
    /\ s2r # <<>>
    /\ RecvApply(recv_start(rcv, <<Head(s2r)>>, TRUE), 1)

RecvNextChar ==
    /\ rcv.pc = "rd_outer"
    /\ s2r # <<>>
    /\ RecvApply(recv_rd_outer(rcv, <<Head(s2r)>>), 1)

RecvInnerChar ==
    /\ rcv.pc = "rd_inner"
    /\ s2r # <<>>
    /\ RecvApply(recv_rd_inner(rcv, <<Head(s2r)>>), 1)

RecvSeq1Read ==
    /\ rcv.pc = "seq1"
    /\ s2r # <<>>
    /\ RecvApply(recv_seq1(rcv, <<Head(s2r)>>), 1)

RecvSeq2Read ==
    /\ rcv.pc = "seq2"
    /\ s2r # <<>>
    /\ RecvApply(recv_seq2(rcv, <<Head(s2r)>>), 1)

RecvDataRead ==
    /\ rcv.pc = "data"
    /\ Len(s2r) >= data_size(rcv)
    /\ RecvApply(recv_data(rcv, SubSeq(s2r, 1, data_size(rcv)), inp.md5_r), data_size(rcv))

RecvMd5Drain ==
    /\ rcv.pc = "md5_drain"
    /\ IF s2r # <<>>
       THEN RecvApply(recv_md5_drain(rcv, <<Head(s2r)>>), 1)
       ELSE RecvApply(recv_md5_drain(rcv, None), 0)

RecvPurge ==
    /\ rcv.pc = "purge"
    /\ IF s2r # <<>>
       THEN RecvApply(recv_purge(rcv, <<Head(s2r)>>), 1)
       ELSE RecvApply(recv_purge(rcv, None), 0)

RecvCancelDrain ==
    /\ rcv.pc = "cdrain"
    /\ IF s2r # <<>>
       THEN RecvApply(recv_cdrain(rcv, <<Head(s2r)>>), 1)
       ELSE RecvApply(recv_cdrain(rcv, None), 0)

\* -------------------------------------------------------------- environment
\* a control thread sets self.canceled of the sender's object
SetCancelS ==
    /\ env.cancel_s > 0
    /\ snd.pc \notin {"init", "done"}
    /\ ~snd.canceled
    /\ snd' = [snd EXCEPT !.canceled = TRUE]
    /\ env' = [env EXCEPT !.cancel_s = @ - 1]
    /\ UNCHANGED <<inp, rcv, s2r, r2s, sink, s_log, r_log>>

\* a control thread sets self.canceled of the receiver's object
SetCancelR ==
    /\ env.cancel_r > 0
    /\ rcv.pc \notin {"init", "done"}
    /\ ~rcv.canceled
    /\ rcv' = [rcv EXCEPT !.canceled = TRUE]
    /\ env' = [env EXCEPT !.cancel_r = @ - 1]
    /\ UNCHANGED <<inp, snd, s2r, r2s, sink, s_log, r_log>>

\* the length of the trailer of a packet
trailer_size(crc_mode) == 1 + crc_mode

\* the line changes one trailer byte of the packet in flight
Corrupt ==
    /\ env.corrupt > 0
    /\ snd.pc = "resp"
    /\ s2r = snd.packet
    /\ \E k \in 0..(trailer_size(snd.crc_mode) - 1) :
          s2r' = [s2r EXCEPT ![Len(s2r) - k] = (@ + 1) % 256]
    /\ env' = [env EXCEPT !.corrupt = @ - 1, !.hit = TRUE]
    /\ UNCHANGED <<inp, snd, rcv, r2s, sink, s_log, r_log>>

\* a byte that has no meaning in the protocol
Junk == <<63>>

\* what a peer of the sender may answer
PeerBytes == {ACK, NAK, CAN, CRC, EOT, Junk}

\* the last two elements of a sequence, or all of a shorter one
LastTwo(s) == SubSeq(s, Len(s) - Min(2, Len(s)) + 1, Len(s))

\* the peer of a sender that runs alone answers with one byte; env.sent keeps
\* the last two bytes it wrote, which are the last two bytes send has read
PeerByte ==
    /\ env.link = "send"
    /\ env.peer > 0
    /\ snd.pc \in {"start", "resp", "eot"}
    /\ r2s = <<>>
    /\ \E b \in PeerBytes :
          /\ r2s' = b
          /\ env' = [env EXCEPT !.peer = @ - 1, !.sent = LastTwo(@ \o b)]
    /\ UNCHANGED <<inp, snd, rcv, s2r, sink, s_log, r_log>>

\* the read of the response to a block times out
SendRespTimeout ==
    /\ env.link \in {"send", "pair"}
    /\ env.peer > 0
    /\ snd.pc = "resp"
    /\ r2s = <<>>
    /\ env' = [env EXCEPT !.peer = @ - 1]
    /\ LET r == send_resp(snd, None, inp.stream, inp.md5_s)
       IN  /\ snd' = r.st
           /\ s_log' = s_log \o Logged(r.out)
           /\ s2r' = IF env.link = "pair" THEN s2r \o Flat(r.out) ELSE s2r
    /\ UNCHANGED <<inp, rcv, r2s, sink, r_log>>

\* the read of the start sequence times out (line 257)
SendStartTimeout ==
    /\ env.link \in {"send", "pair"}
    /\ env.peer > 0
    /\ snd.pc = "start"
    /\ r2s = <<>>
    /\ env' = [env EXCEPT !.peer = @ - 1]
    /\ LET r == send_start(snd, None, inp.stream, inp.md5_s)
       IN  /\ snd' = r.st
           /\ s_log' = s_log \o Logged(r.out)
           /\ s2r' = IF env.link = "pair" THEN s2r \o Flat(r.out) ELSE s2r
    /\ UNCHANGED <<inp, rcv, r2s, sink, r_log>>

\* the read of the answer to EOT times out (line 370)
SendEotTimeout ==
    /\ env.link \in {"send", "pair"}
    /\ env.peer > 0
    /\ snd.pc = "eot"
    /\ r2s = <<>>
    /\ env' = [env EXCEPT !.peer = @ - 1]
    /\ LET r == send_eot_resp(snd, None)
       IN  /\ snd' = r.st
           /\ s_log' = s_log \o Logged(r.out)
           /\ s2r' = IF env.link = "pair" THEN s2r \o Flat(r.out) ELSE s2r
    /\ UNCHANGED <<inp, rcv, r2s, sink, r_log>>

\* the line loses what is in flight to recv, or the next byte in flight to send
Lose ==
    /\ env.corrupt > 0
    /\ \/ s2r # <<>> /\ s2r' = <<>> /\ r2s' = r2s
       \/ r2s # <<>> /\ r2s' = Tail(r2s) /\ s2r' = s2r
    /\ env' = [env EXCEPT !.corrupt = @ - 1, !.hit = TRUE]
    /\ UNCHANGED <<inp, snd, rcv, sink, s_log, r_log>>

\* the line changes the start byte, a sequence byte or the length byte of the
\* packet in flight, to the next value or to a byte without meaning
Damage ==
    /\ env.corrupt > 0
    /\ snd.pc = "resp"
    /\ s2r = snd.packet
    /\ \E p \in 1..4 : \E b \in {(s2r[p] + 1) % 256, Junk[1]} :
          s2r' = [s2r EXCEPT ![p] = b]
    /\ env' = [env EXCEPT !.corrupt = @ - 1, !.hit = TRUE]
    /\ UNCHANGED <<inp, snd, rcv, r2s, sink, s_log, r_log>>

\* line 597: the read that discards the rest of a block with a wrong sequence
RecvSkipRead ==
    /\ rcv.pc = "skip"
    /\ Len(s2r) >= skip_size(rcv)
    /\ RecvApply(recv_skip(rcv, SubSeq(s2r, 1, skip_size(rcv))), skip_size(rcv))

\* lines 566-569: the drain after a byte that starts no block
RecvJunkDrain ==
    /\ rcv.pc = "junk_drain"
    /\ IF s2r # <<>>
       THEN RecvApply(recv_junk_drain(rcv, <<Head(s2r)>>), 1)
       ELSE RecvApply(recv_junk_drain(rcv, None), 0)

\* recv is in a read that the bytes on the line do not satisfy
RecvWaitsForBytes ==
    \/ rcv.pc \in {"start", "rd_outer", "rd_inner", "seq1", "seq2"} /\ s2r = <<>>
    \/ rcv.pc = "data" /\ Len(s2r) < data_size(rcv)
    \/ rcv.pc = "skip" /\ Len(s2r) < skip_size(rcv)

\* recv waits for the byte that starts a block, and nothing is on the line
RecvIdle == rcv.pc \in {"start", "rd_outer", "rd_inner"} /\ s2r = <<>>

\* the peer of a receiver that runs alone writes one byte that starts no block,
\* when recv waits for a start byte or right behind a block
RecvPeerByte ==
    /\ env.link = "recv"
    /\ env.peer > 0
    /\ RecvIdle \/ (rcv.pc = "skip" /\ Len(s2r) = skip_size(rcv) - 1)
    /\ \E b \in {CAN, EOT, Junk} : s2r' = s2r \o b
    /\ env' = [env EXCEPT !.peer = @ - 1]
    /\ UNCHANGED <<inp, snd, rcv, r2s, sink, s_log, r_log>>

\* the content of the block recv expects next: the md5 first, then the stream
ExpectedData ==
    IF rcv.pc = "start" \/ (rcv.sequence = 0 /\ ~rcv.md5_received)
    THEN inp.md5_s
    ELSE stream_read(inp.stream, sink.len, 128)

\* the sequence recv expects next
ExpectedSequence == IF rcv.pc = "start" THEN 0 ELSE rcv.sequence

\* the peer writes the block recv expects, framed as recv last requested: whole,
\* with the next sequence, with a changed trailer, cut after the sequence
\* bytes, or cut after the first byte
RecvPeerPacket ==
    /\ env.link = "recv"
    /\ env.peer > 0
    /\ RecvIdle
    /\ ExpectedData # <<>>
    /\ LET good == send_packet(128, ExpectedSequence, rcv.crc_mode, ExpectedData)
           n == Len(good)
       IN  \/ s2r' = good
           \/ s2r' = [good EXCEPT ![2] = (@ + 1) % 256, ![3] = (@ + 255) % 256]
           \/ s2r' = [good EXCEPT ![n] = (@ + 1) % 256]
           \/ s2r' = SubSeq(good, 1, 3)
           \/ s2r' = SubSeq(good, 1, 1)
    /\ env' = [env EXCEPT !.peer = @ - 1]
    /\ UNCHANGED <<inp, snd, rcv, r2s, sink, s_log, r_log>>

\* a read of recv times out: getc returns None, and what had arrived of a
\* longer read is lost
RecvTimeout ==
    /\ env.link \in {"recv", "pair"}
    /\ env.peer > 0
    /\ env' = [env EXCEPT !.peer = @ - 1]
    /\ LET r == CASE rcv.pc = "start" -> recv_start(rcv, None, TRUE)
                  [] rcv.pc = "rd_outer" -> recv_rd_outer(rcv, None)
                  [] rcv.pc = "rd_inner" -> recv_rd_inner(rcv, None)
                  [] rcv.pc = "seq1" -> recv_seq1(rcv, None)
                  [] rcv.pc = "seq2" -> recv_seq2(rcv, None)
                  [] rcv.pc = "data" -> recv_data(rcv, None, inp.md5_r)
                  [] rcv.pc = "skip" -> recv_skip(rcv, None)
       IN  /\ RecvWaitsForBytes
           /\ rcv' = r.st
           /\ r_log' = r_log \o Logged(r.out)
           /\ sink' = stream_write(sink, r.wr, inp.stream)
           /\ r2s' = IF env.link = "pair" THEN r2s \o Flat(r.out) ELSE r2s
    /\ s2r' = <<>>
    /\ UNCHANGED <<inp, snd, s_log>>

\* the peer writes the first three bytes of a block, small or large, and stops
RecvPeerStart ==
    /\ env.link = "recv"
    /\ env.peer > 0
    /\ RecvIdle
    /\ \E packet_size \in {128, 8192} :
          s2r' = make_send_header(packet_size, ExpectedSequence)
    /\ env' = [env EXCEPT !.peer = @ - 1]
    /\ UNCHANGED <<inp, snd, rcv, r2s, sink, s_log, r_log>>

\* ------------------------------------------------------------ initial states
\* XMODEM.__init__ (lines 186-193), and send not yet called
SndInit(mode) ==
    [pc |-> "init", mode |-> mode, canceled |-> FALSE,
     error_count |-> 0, crc_mode |-> 0, cancel |-> 0, success_count |-> 0,
     total_packets |-> 0, sequence |-> 0, md5_sent |-> FALSE,
     packet |-> <<>>, kind |-> "", pos |-> 0, tx |-> 0, tops |-> 0, ret |-> None, exit |-> ""]

\* XMODEM.__init__ (lines 186-193), and recv not yet called with this crc_mode
RcvInit(crc_mode) ==
    [pc |-> "init", mode |-> "xmodem8k", mode_set |-> FALSE, canceled |-> FALSE,
     crc_mode |-> crc_mode, success_count |-> 0, error_count |-> 0, char |-> <<0>>,
     cancel |-> 0, income_size |-> 0, packet_size |-> 0, is_stx |-> 0, sequence |-> 0,
     retrans |-> 0, md5_received |-> FALSE, seq1 |-> 0, seq2 |-> 0, tops |-> 0,
     ret |-> None, exit |-> ""]

\* a 32-character digest made of one character
Digest(c) == [i \in 1..32 |-> c]
DigestA == Digest(97)
DigestB == Digest(98)

\* a stream of n bytes, byte i being (k * i + pad) % 256; k = 0 gives a stream
\* made of pad bytes only
Content(n, k) == [len |-> n, k |-> k]

ShortLens == {0, 1} \cup {128 * (b - 1) + r : b \in 1..MaxBlocks, r \in {44, 128}}
ShortStreams == {Content(n, k) : n \in ShortLens, k \in {0, 7}}
LongStreams == {Content(128 * WrapBlocks + r, 7) : r \in {0, 1}}

Env(link) ==
    [link |-> link, corrupt |-> 0, hit |-> FALSE, cancel_s |-> 0, cancel_r |-> 0,
     peer |-> 0, sent |-> <<>>]

InitWith(streams, modes, md5s_r, crc_modes, envs) ==
    /\ inp \in [stream : streams, md5_s : {DigestA}, md5_r : md5s_r]
    /\ snd \in {SndInit(m) : m \in modes}
    /\ rcv \in {RcvInit(c) : c \in crc_modes}
    /\ s2r = <<>>
    /\ r2s = <<>>
    /\ sink = [len |-> 0, same |-> TRUE]
    /\ s_log = <<>>
    /\ r_log = <<>>
    /\ env \in envs

\* a sender and a receiver over a lossless, in-order transport
Init ==
    \/ InitWith(ShortStreams, {"xmodem"}, {DigestA, DigestB, <<>>}, {0, 1}, {Env("pair")})
    \/ InitWith({Content(1, 7)}, {"xmodem8k"}, {DigestB}, {1}, {Env("pair")})

NextPair ==
    \/ SendCall
    \/ RecvCall
    \/ SendStartRead
    \/ SendRespRead
    \/ SendEotRead
    \/ RecvStartRead
    \/ RecvNextChar
    \/ RecvSeq1Read
    \/ RecvSeq2Read
    \/ RecvDataRead
    \/ RecvMd5Drain

Spec == Init /\ [][NextPair]_vars

\* the same transport, a stream long enough for the sequence to wrap
InitWrap ==
    InitWith(LongStreams, {"xmodem"}, {DigestA, DigestB}, {1}, {Env("pair")})

SpecWrap == InitWrap /\ [][NextPair]_vars

\* the same transport, and each object may be canceled once
CancelStreams == {Content(n, 7) : n \in {1, 129}}

InitCancel ==
    InitWith(CancelStreams, {"xmodem"}, {DigestA, DigestB}, {1},
             {[Env("pair") EXCEPT !.cancel_s = 1], [Env("pair") EXCEPT !.cancel_r = 1],
              [Env("pair") EXCEPT !.cancel_s = 1, !.cancel_r = 1]})

NextCancel ==
    \/ NextPair
    \/ SetCancelS
    \/ SetCancelR
    \/ SendDrain
    \/ RecvCancelDrain

SpecCancel == InitCancel /\ [][NextCancel]_vars

\* the same transport, and one trailer byte of one packet is changed
InitCorrupt ==
    InitWith(ShortStreams, {"xmodem"}, {DigestA, DigestB}, {0, 1},
             {[Env("pair") EXCEPT !.corrupt = 1]})

NextCorrupt ==
    \/ NextPair
    \/ Corrupt
    \/ RecvPurge

SpecCorrupt == InitCorrupt /\ [][NextCorrupt]_vars

\* a sender alone: its peer answers each read with a byte of its choice, or not
PeerBudget == Retry + 3

InitSendPeer ==
    InitWith({Content(n, 7) : n \in {0, 1, 129}}, {"xmodem"}, {DigestB}, {1},
             {[Env("send") EXCEPT !.peer = PeerBudget]})

NextSendPeer ==
    \/ SendCall
    \/ SendStartRead
    \/ SendRespRead
    \/ SendEotRead
    \/ PeerByte
    \/ SendRespTimeout
    \/ SendStartTimeout

SpecSendPeer == InitSendPeer /\ [][NextSendPeer]_vars

\* a receiver alone: its peer writes bytes and blocks of its choice, or nothing
RecvBudget == Retry + 2

InitRecvPeer ==
    InitWith({Content(129, 7)}, {"xmodem"}, {DigestB}, {0, 1},
             {[Env("recv") EXCEPT !.peer = RecvBudget]})

NextRecvPeer ==
    \/ RecvCall
    \/ RecvStartRead
    \/ RecvNextChar
    \/ RecvInnerChar
    \/ RecvSeq1Read
    \/ RecvSeq2Read
    \/ RecvDataRead
    \/ RecvSkipRead
    \/ RecvPurge
    \/ RecvJunkDrain
    \/ RecvPeerByte
    \/ RecvPeerPacket
    \/ RecvTimeout

SpecRecvPeer == InitRecvPeer /\ [][NextRecvPeer]_vars

\* a sender alone that is given any md5, the empty string included
InitAnyId ==
    /\ inp \in [stream : {Content(n, 7) : n \in {0, 1, 129}}, md5_s : {DigestA, <<>>},
                 md5_r : {DigestB}]
    /\ snd = SndInit("xmodem")
    /\ rcv = RcvInit(1)
    /\ s2r = <<>>
    /\ r2s = <<>>
    /\ sink = [len |-> 0, same |-> TRUE]
    /\ s_log = <<>>
    /\ r_log = <<>>
    /\ env = [Env("send") EXCEPT !.peer = PeerBudget]

SpecAnyId == InitAnyId /\ [][NextSendPeer]_vars

\* recv is called again on the object of a call that returned: mode, mode_set
\* and canceled are fields of the object (lines 189-193), the rest is local
RecvAgain ==
    /\ rcv.pc = "done"
    /\ \E crc_mode \in {0, 1} :
          rcv' = [RcvInit(crc_mode) EXCEPT !.mode = rcv.mode, !.mode_set = rcv.mode_set,
                                           !.canceled = rcv.canceled]
    /\ UNCHANGED <<inp, snd, s2r, r2s, sink, s_log, r_log, env>>

\* lines 195-196: the caller clears the mode lock between two calls
ClearModeSet ==
    /\ rcv.pc = "done"
    /\ rcv.mode_set
    /\ rcv' = [rcv EXCEPT !.mode_set = FALSE]
    /\ UNCHANGED <<inp, snd, s2r, r2s, sink, s_log, r_log, env>>

\* one object used for several calls of recv, one after the other; the peer
\* writes single bytes and the first bytes of blocks
NextRecvAgain ==
    \/ RecvCall
    \/ RecvStartRead
    \/ RecvNextChar
    \/ RecvInnerChar
    \/ RecvSeq1Read
    \/ RecvSeq2Read
    \/ RecvPurge
    \/ RecvJunkDrain
    \/ RecvPeerByte
    \/ RecvPeerStart
    \/ RecvTimeout
    \/ RecvAgain
    \/ ClearModeSet

SpecRecvAgain == InitRecvPeer /\ [][NextRecvAgain]_vars

\* a sender and a receiver over a line that loses and damages what it carries,
\* with reads that time out before the answer is there
FaultBudget == Retry \div 2
TimeoutBudget == Retry

InitLossy ==
    InitWith({Content(129, 7)}, {"xmodem"}, {DigestA, DigestB}, {1},
             {[Env("pair") EXCEPT !.corrupt = FaultBudget, !.peer = TimeoutBudget]})

NextLossy ==
    \/ NextPair
    \/ RecvInnerChar
    \/ RecvSkipRead
    \/ RecvPurge
    \/ RecvJunkDrain
    \/ Corrupt
    \/ Damage
    \/ Lose
    \/ SendStartTimeout
    \/ SendRespTimeout
    \/ SendEotTimeout
    \/ RecvTimeout

SpecLossy == InitLossy /\ [][NextLossy]_vars

\* the md5 of the five characters 43947, as the caller passes it: the CRC of
\* its block is 0x9304, and 0x93 is also the checksum of the block
DigestStale ==
    <<48, 48, 97, 99, 100, 101, 102, 53, 98, 51, 50, 102, 52, 97, 55, 48,
      56, 57, 51, 55, 56, 100, 51, 98, 53, 48, 98, 48, 52, 55, 97, 51>>

\* the same line, for a stream of one block and that md5
InitStale ==
    /\ inp \in [stream : {Content(1, 7)}, md5_s : {DigestStale},
                 md5_r : {DigestStale, DigestB}]
    /\ snd = SndInit("xmodem")
    /\ rcv = RcvInit(1)
    /\ s2r = <<>>
    /\ r2s = <<>>
    /\ sink = [len |-> 0, same |-> TRUE]
    /\ s_log = <<>>
    /\ r_log = <<>>
    /\ env = [Env("pair") EXCEPT !.corrupt = FaultBudget, !.peer = TimeoutBudget]

SpecStale == InitStale /\ [][NextLossy]_vars

\* ------------------------------------------------------------------- claims
\* the sink holds the first bytes of the stream, and the whole stream
SinkIsPrefix == sink.same /\ sink.len <= inp.stream.len

SinkIsStream == sink.same /\ sink.len = inp.stream.len

Done == snd.pc = "done" /\ rcv.pc = "done"

\* a call waits in a read that is not a drain loop and has nothing to read
SendWaits == snd.pc \in {"start", "resp", "eot"} /\ r2s = <<>>

RecvWaits ==
    \/ rcv.pc \in {"start", "rd_outer", "rd_inner", "seq1", "seq2"} /\ s2r = <<>>
    \/ rcv.pc = "data" /\ Len(s2r) < data_size(rcv)
    \/ rcv.pc = "skip" /\ Len(s2r) < skip_size(rcv)

\* no call can take a step, and one of them has not returned
Stuck ==
    /\ ~Done
    /\ snd.pc = "done" \/ SendWaits
    /\ rcv.pc = "done" \/ RecvWaits

\* the sequence byte of a logged packet
SeqOf(e) == e.head[2]

IsPacket(e) == e.len > 1

\* the outcome each return statement of send stands for, and the outcome its
\* docstring gives each value (True, False, None)
SendOutcome(exit) ==
    IF exit = "ack_eot" THEN "Success"
    ELSE IF exit \in {"can_start", "can_block", "user_cancel"} THEN "Canceled"
    ELSE "Failure"

SendValueOutcome(ret) ==
    IF ret = <<TRUE>> THEN "Success"
    ELSE IF ret = None THEN "Canceled"
    ELSE "Failure"

\* the same for recv: a byte count, None, -1, 0
RecvOutcome(exit) ==
    IF exit = "eot" THEN "Success"
    ELSE IF exit = "md5_equal" THEN "AlreadyUpToDate"
    ELSE IF exit \in {"can_start", "can_block", "user_cancel"} THEN "Canceled"
    ELSE "Failure"

RecvValueOutcome(ret) ==
    IF ret = None THEN "Failure"
    ELSE IF ret = <<-1>> THEN "Canceled"
    ELSE IF ret = <<0>> THEN "AlreadyUpToDate"
    ELSE "Success"

\* C1: over the lossless transport, when the md5 passed to recv differs from the
\* md5 passed to send, the sink is always a prefix of the stream (no byte of the
\* md5 block and no pad byte is written), a run stops only when both calls
\* have returned, send returns True, recv returns through EOT and the sink
\* holds exactly the stream.
C1_LosslessTransfer ==
    (inp.md5_r # inp.md5_s) =>
        /\ SinkIsPrefix
        /\ (snd.pc = "done" => snd.ret = <<TRUE>>)
        /\ (rcv.pc = "done" => rcv.exit = "eot" /\ SinkIsStream)
        /\ ~Stuck

C1_Witness ==
    /\ Done
    /\ inp.md5_r # inp.md5_s
    /\ inp.stream.len = 300
    /\ snd.ret = <<TRUE>>
    /\ rcv.exit = "eot"
    /\ SinkIsStream

\* C2: when the md5 passed to recv equals the md5 of block 0, recv returns 0,
\* the sink stays empty, recv writes no ACK, and send never reads the stream,
\* never writes a block with a sequence other than 0, and returns on the
\* second CAN it reads.
C2_HashShortCircuit ==
    (inp.md5_r = inp.md5_s) =>
        /\ sink.len = 0
        /\ \A i \in 1..Len(r_log) : r_log[i].head # ACK
        /\ (rcv.pc = "done" => rcv.ret = <<0>> /\ rcv.exit = "md5_equal")
        /\ snd.pos = 0
        /\ snd.total_packets = 0
        /\ \A i \in 1..Len(s_log) :
              /\ s_log[i].kind # "data"
              /\ s_log[i].head # EOT
              /\ (IsPacket(s_log[i]) => SeqOf(s_log[i]) = 0)
        /\ (snd.pc = "done" => snd.exit = "can_block")
        /\ ~Stuck

C2_Witness ==
    /\ Done
    /\ inp.md5_r = inp.md5_s
    /\ inp.stream.len > 0
    /\ rcv.ret = <<0>>
    /\ snd.exit = "can_block"

\* C3: the value a call returns tells which of Success, Failure, Canceled and
\* AlreadyUpToDate ended it.
C3_OutcomesDistinct ==
    /\ (snd.pc = "done" => SendValueOutcome(snd.ret) = SendOutcome(snd.exit))
    /\ (rcv.pc = "done" => RecvValueOutcome(rcv.ret) = RecvOutcome(rcv.exit))

\* C4: when recv ends on EOT, the count it returns is the number of bytes it
\* wrote to the sink.
C4_ByteCount ==
    (rcv.pc = "done" /\ rcv.exit = "eot") => rcv.ret = <<sink.len>>

\* C5: in the block loop, the second CAN makes send return None and recv
\* return -1.
C5_TwoCanCanceled ==
    /\ (snd.pc = "done" /\ snd.exit = "can_block" => snd.ret = None)
    /\ (rcv.pc = "done" /\ rcv.exit = "can_block" => rcv.ret = <<-1>>)

\* the log entry of one CAN byte
CanEntry == LogEntry(Put(CAN, "ctl"))

ThreeCan == <<CanEntry, CanEntry, CanEntry>>

\* C6: in send and in recv, a step that reaches the top of the block loop with
\* the cancel flag set writes exactly three CAN bytes and nothing else and goes
\* to the drain; the drain writes nothing and leaves the sink alone, and it is
\* left only by a read that returned nothing, with the flag reset and the
\* return value None (send) or -1 (recv).
C6_CancelAtTop ==
    [][
        /\ (snd'.tops > snd.tops /\ snd.canceled) =>
              (snd'.pc = "drain" /\ s_log' = s_log \o ThreeCan)
        /\ (snd.pc = "drain") =>
              /\ s_log' = s_log
              /\ \/ snd' = snd
                 \/ /\ r2s = <<>>
                    /\ snd' = [snd EXCEPT !.pc = "done", !.ret = None,
                                          !.exit = "user_cancel", !.canceled = FALSE]
        /\ (rcv'.tops > rcv.tops /\ rcv.canceled) =>
              (rcv'.pc = "cdrain" /\ r_log' = r_log \o ThreeCan /\ sink' = sink)
        /\ (rcv.pc = "cdrain") =>
              /\ r_log' = r_log
              /\ sink' = sink
              /\ \/ rcv' = rcv
                 \/ /\ s2r = <<>>
                    /\ rcv' = [rcv EXCEPT !.pc = "done", !.ret = <<-1>>,
                                          !.exit = "user_cancel", !.canceled = FALSE]
    ]_vars

\* both calls were canceled by their flag in the middle of a transfer
C6_Witness ==
    /\ Done
    /\ snd.exit = "user_cancel" /\ snd.ret = None /\ ~snd.canceled
    /\ rcv.exit = "user_cancel" /\ rcv.ret = <<-1>> /\ ~rcv.canceled
    /\ sink.len > 0
    /\ sink.len < inp.stream.len

\* the head of the packet send is transmitting
BlockHead == SubSeq(snd.packet, 1, 3)

\* the last n entries of the log of send are CAN bytes
EndsWithAbort(n) ==
    /\ Len(s_log) >= n
    /\ \A i \in (Len(s_log) - n + 1)..Len(s_log) : s_log[i] = CanEntry

\* send left the block loop without an ACK for the block it was transmitting
BlockGivenUp == snd.pc = "done" /\ snd.exit \in {"retry_block", "can_block"}

NakEntry == LogEntry(Put(NAK, "ctl"))

\* the NAK bytes recv wrote after the request that opened the transfer
NaksAfterStart == Cardinality({i \in 2..Len(r_log) : r_log[i] = NakEntry})

PacketsSent == Cardinality({i \in 1..Len(s_log) : IsPacket(s_log[i])})

\* recv is about to read the content and trailer of a block, and the bytes that
\* wait for it are not the bytes send wrote
DamagedBlockWaits ==
    /\ rcv.pc = "data"
    /\ Len(s2r) >= data_size(rcv)
    /\ SubSeq(s2r, 1, data_size(rcv)) # Rest(snd.packet, 3)

\* C8: the step of recv that reads a block whose trailer was changed on the
\* line appends nothing to the sink, writes nothing (no ACK), keeps the expected
\* sequence and goes to the purge; the purge ends by writing one NAK and
\* nothing else, with the sink and the sequence unchanged; the run then ends
\* only with both calls returned, after one NAK and one retransmission, and
\* when the md5 values differ send returns True, recv returns through EOT and
\* the sink holds exactly the stream.
C8_BadTrailerRetransmitted ==
    /\ [][
            /\ (DamagedBlockWaits /\ rcv' # rcv) =>
                  /\ rcv'.pc = "purge"
                  /\ sink' = sink
                  /\ r_log' = r_log
                  /\ rcv'.sequence = rcv.sequence
            /\ (rcv.pc = "purge" /\ rcv' # rcv) =>
                  /\ rcv'.pc = "rd_outer"
                  /\ sink' = sink
                  /\ r_log' = r_log \o <<NakEntry>>
                  /\ rcv'.sequence = rcv.sequence
       ]_vars
    /\ [](/\ ~Stuck
          /\ SinkIsPrefix
          /\ NaksAfterStart <= 1
          /\ (Done /\ inp.md5_r # inp.md5_s) =>
                /\ snd.ret = <<TRUE>> /\ rcv.exit = "eot" /\ SinkIsStream
                /\ PacketsSent = snd.success_count + NaksAfterStart
                /\ (env.hit => NaksAfterStart = 1))

\* a transfer of three blocks succeeded after the trailer of a data block was
\* changed and the block was sent again
C8_Witness ==
    /\ Done
    /\ env.hit
    /\ inp.stream.len = 300
    /\ NaksAfterStart = 1
    /\ PacketsSent = 5
    /\ s_log[3] = s_log[4]
    /\ snd.ret = <<TRUE>>
    /\ rcv.exit = "eot"
    /\ SinkIsStream

\* the blocks recv has accepted, the md5 block included
RecvAccepted == rcv.success_count + (IF rcv.md5_received THEN 1 ELSE 0)

\* C9: on both sides the sequence is the number of blocks accepted so far
\* modulo 256, and the step after sequence 255 gives sequence 0; over the
\* lossless transport a transfer of more than 256 blocks stops only when both
\* calls have returned, the sink is always a prefix of the stream, and when
\* the md5 values differ send returns True, recv returns through EOT and the
\* sink holds exactly the stream.
C9_SequenceWraps ==
    /\ [][
            /\ (snd.sequence = 255 /\ snd'.sequence # 255) => snd'.sequence = 0
            /\ (rcv.sequence = 255 /\ rcv'.sequence # 255) => rcv'.sequence = 0
       ]_vars
    /\ [](/\ (snd.pc \in {"resp", "eot"} => snd.sequence = snd.success_count % 256)
          /\ (rcv.pc \in {"rd_outer", "seq1", "seq2", "data"} =>
                rcv.sequence = RecvAccepted % 256)
          /\ SinkIsPrefix
          /\ ~Stuck
          /\ (Done /\ inp.md5_r # inp.md5_s) =>
                (snd.ret = <<TRUE>> /\ rcv.exit = "eot" /\ SinkIsStream))

\* a transfer of more than 256 data blocks succeeded
C9_Witness ==
    /\ Done
    /\ snd.ret = <<TRUE>>
    /\ rcv.exit = "eot"
    /\ snd.success_count > 257
    /\ rcv.success_count > 256
    /\ sink.len > 128 * 256
    /\ SinkIsStream

\* C10 as stated: no packet that carries bytes of the stream has sequence 0.
C10_ZeroOnlyForHash ==
    \A i \in 1..Len(s_log) : s_log[i].kind = "data" => SeqOf(s_log[i]) # 0

\* C10 amended: over the lossless transport the md5 block has sequence 0 and
\* comes before every packet that carries bytes of the stream; when the md5
\* values differ it is sent once, and the k-th packet that carries bytes of the
\* stream has sequence k modulo 256, so it has sequence 0 exactly when k is a
\* multiple of 256; when the md5 values are equal no such packet is sent.
C10_DataSequence ==
    \A i \in 1..Len(s_log) :
        /\ s_log[i].kind = "md5" => (SeqOf(s_log[i]) = 0 /\ (i = 1 \/ s_log[i - 1].kind = "md5"))
        /\ s_log[i].kind = "data" =>
              /\ inp.md5_r # inp.md5_s
              /\ s_log[1].kind = "md5"
              /\ (i > 2 => s_log[i - 1].kind = "data")
              /\ SeqOf(s_log[i]) = (i - 1) % 256
              /\ (SeqOf(s_log[i]) = 0) = (i - 1 >= 256 /\ (i - 1) % 256 = 0)

\* the 256th data block went out with sequence 0 and the transfer succeeded
C10_Witness ==
    /\ Done
    /\ snd.ret = <<TRUE>>
    /\ SinkIsStream
    /\ Len(s_log) > 257
    /\ s_log[257].kind = "data"
    /\ SeqOf(s_log[257]) = 0

\* ------------------------------------------------- framing, taken alone
\* what recv makes of one packet when it expects this sequence (lines 577-625):
\* the sequence bytes, the trailer, and the content it would write
recv_packet(crc_mode, is_stx, sequence, packet) ==
    LET seq1 == packet[2]
        seq2 == 255 - packet[3]
        v == verify_recv_checksum(crc_mode, SubSeq(packet, 4, Len(packet)))
    IN  [seq_ok |-> (seq1 = seq2 /\ seq2 = sequence),
         valid |-> v.valid,
         content |-> block_content(is_stx, v.data)]

\* the sequence numbers at the ends and in the middle of the range
EdgeSequences == {0, 1, 127, 128, 254, 255}

\* one block to frame: a content, a sequence, an integrity mode, a packet size
FrameCase(mode, n, k, sequence, crc_mode) ==
    [stream |-> Content(n, k), md5_s |-> <<>>, md5_r |-> <<>>,
     mode |-> mode, sequence |-> sequence, crc_mode |-> crc_mode]

FrameCases ==
    {FrameCase("xmodem", n, 7, q, c) : n \in {0, 1, 127, 128}, q \in EdgeSequences, c \in {0, 1}}
    \cup {FrameCase("xmodem", 44, k, q, c) : k \in {0, 7}, q \in 0..255, c \in {0, 1}}
    \cup {FrameCase("xmodem8k", n, 7, 255, c) : n \in {0, 300, 8192}, c \in {0, 1}}

InitFrame ==
    /\ inp \in FrameCases
    /\ snd = [pc |-> "init"]
    /\ rcv = [pc |-> "init"]
    /\ s2r = <<>>
    /\ r2s = <<>>
    /\ sink = [len |-> 0, same |-> TRUE]
    /\ s_log = <<>>
    /\ r_log = <<>>
    /\ env = Env("frame")

\* send frames the content as one block and writes the packet
FramePacket ==
    /\ snd.pc = "init"
    /\ LET packet_size == packet_size_of(inp.mode)
           data == stream_read(inp.stream, 0, packet_size)
       IN  s2r' = send_packet(packet_size, inp.sequence, inp.crc_mode, data)
    /\ snd' = [pc |-> "done"]
    /\ UNCHANGED <<inp, rcv, r2s, sink, s_log, r_log, env>>

\* recv takes the packet apart and writes its content
UnframePacket ==
    /\ snd.pc = "done"
    /\ rcv.pc = "init"
    /\ LET r == recv_packet(inp.crc_mode, is_stx_of(packet_size_of(inp.mode)), inp.sequence, s2r)
       IN  /\ rcv' = [pc |-> "done", seq_ok |-> r.seq_ok, valid |-> r.valid, content |-> r.content]
           /\ sink' = stream_write(sink, r.content, inp.stream)
    /\ s2r' = <<>>
    /\ UNCHANGED <<inp, snd, r2s, s_log, r_log, env>>

NextFrame ==
    \/ FramePacket
    \/ UnframePacket

SpecFrame == InitFrame /\ [][NextFrame]_vars

\* C11: the packet send frames has the length the receiver reads, its sequence
\* bytes and its trailer are accepted by recv, and the content recv extracts
\* with the declared length is exactly the content that was framed, for
\* contents from empty to a full block, sequences 0..255 and both trailers.
C11_FrameRoundTrip ==
    /\ (snd.pc = "done" /\ rcv.pc = "init") =>
          Len(s2r) = 3 + 1 + is_stx_of(packet_size_of(inp.mode)) + packet_size_of(inp.mode)
                       + trailer_size(inp.crc_mode)
    /\ rcv.pc = "done" =>
          /\ rcv.seq_ok
          /\ rcv.valid
          /\ rcv.content = stream_read(inp.stream, 0, inp.stream.len)
          /\ SinkIsStream

\* a full 8192-byte block went through with a CRC trailer
C11_Witness ==
    /\ rcv.pc = "done"
    /\ inp.mode = "xmodem8k"
    /\ inp.crc_mode = 1
    /\ inp.stream.len = 8192
    /\ Len(rcv.content) = 8192
    /\ rcv.valid

\* ------------------------------------- calc_checksum and calc_crc, taken alone
\* the bytes of "hello" and "world", the strings of the docstrings (lines 680-682
\* and 696-698)
Hello == <<104, 101, 108, 108, 111>>
World == <<119, 111, 114, 108, 100>>

ByteSample == {0, 129, 255}

\* the byte strings of length at most n over ByteSample
RECURSIVE BytesUpTo(_)
BytesUpTo(n) ==
    IF n = 0 THEN {<<>>}
    ELSE LET shorter == BytesUpTo(n - 1)
         IN  shorter \cup {Append(t, x) : t \in shorter, x \in ByteSample}

\* values to update: nothing, one bit, the polynomial, the top bit, all bits
SeedSample == {0, 1, 255, 4129, 32768, 65535}

CalcCases ==
    [a : BytesUpTo(MaxLen), b : BytesUpTo(MaxLen), seed : SeedSample]
    \cup {[a |-> <<x>>, b |-> <<>>, seed |-> 0] : x \in 0..255}
    \cup {[a |-> Hello, b |-> World, seed |-> 0]}

InitCalc ==
    /\ inp \in CalcCases
    /\ snd = [pc |-> "init"]
    /\ rcv = [pc |-> "init"]
    /\ s2r = <<>>
    /\ r2s = <<>>
    /\ sink = [len |-> 0, same |-> TRUE]
    /\ s_log = <<>>
    /\ r_log = <<>>
    /\ env = Env("calc")

\* calc_checksum over a then b in one call, and in two calls
CalcChecksum ==
    /\ snd.pc = "init"
    /\ snd' = [pc |-> "done",
               whole |-> calc_checksum(inp.a \o inp.b, inp.seed),
               first |-> calc_checksum(inp.a, inp.seed),
               chained |-> calc_checksum(inp.b, calc_checksum(inp.a, inp.seed))]
    /\ UNCHANGED <<inp, rcv, s2r, r2s, sink, s_log, r_log, env>>

\* calc_crc over a then b in one call, and in two calls
CalcCrc ==
    /\ rcv.pc = "init"
    /\ rcv' = [pc |-> "done",
               whole |-> calc_crc(inp.a \o inp.b, inp.seed),
               first |-> calc_crc(inp.a, inp.seed),
               chained |-> calc_crc(inp.b, calc_crc(inp.a, inp.seed))]
    /\ UNCHANGED <<inp, snd, s2r, r2s, sink, s_log, r_log, env>>

NextCalc ==
    \/ CalcChecksum
    \/ CalcCrc

SpecCalc == InitCalc /\ [][NextCalc]_vars

\* the sum of the bytes of s
RECURSIVE ByteSum(_)
ByteSum(s) == IF s = <<>> THEN 0 ELSE Head(s) + ByteSum(Tail(s))

\* C12: calc_checksum(data, seed) is (seed + sum of the bytes of data) mod 256,
\* it lies in 0..255, and calc_checksum(b, calc_checksum(a, seed)) is
\* calc_checksum(a followed by b, seed).
C12_ChecksumChains ==
    snd.pc = "done" =>
        /\ snd.whole = (inp.seed + ByteSum(inp.a \o inp.b)) % 256
        /\ snd.first = (inp.seed + ByteSum(inp.a)) % 256
        /\ snd.chained = snd.whole
        /\ snd.whole \in 0..255
        /\ snd.first \in 0..255

\* the value of the docstring: "hello" then "world" gives 0x3c
C12_Witness ==
    /\ snd.pc = "done"
    /\ inp.a = Hello
    /\ inp.b = World
    /\ snd.chained = 60
    /\ snd.whole = 60

\* one shift of the CRC register, most significant bit first, polynomial 0x1021
ShiftBit(crc) ==
    IF crc >= 32768 THEN BitXor((crc * 2) % 65536, 4129) ELSE (crc * 2) % 65536

RECURSIVE ShiftBits(_, _)
ShiftBits(crc, n) ==
    IF n = 0 THEN crc
    ELSE LET next == ShiftBit(crc)
         IN  IF next >= 0 THEN ShiftBits(next, n - 1) ELSE next

\* the CRC of data bit by bit: each byte enters at the top of the register
RECURSIVE BitwiseCrc(_, _)
BitwiseCrc(data, crc) ==
    IF data = <<>> THEN crc
    ELSE LET next == ShiftBits(BitXor(crc, Head(data) * 256), 8)
         IN  IF next >= 0 THEN BitwiseCrc(Tail(data), next) ELSE next

\* C13: calc_crc(data, seed), computed with the table, is the bitwise CRC with
\* polynomial 0x1021, most significant bit first, of data started from seed; it
\* is a 16-bit value, and calc_crc(b, calc_crc(a, seed)) is calc_crc(a followed
\* by b, seed).
C13_CrcIsBitwise ==
    rcv.pc = "done" =>
        /\ rcv.whole = BitwiseCrc(inp.a \o inp.b, inp.seed)
        /\ rcv.first = BitwiseCrc(inp.a, inp.seed)
        /\ rcv.chained = rcv.whole
        /\ rcv.whole \in 0..65535
        /\ rcv.first \in 0..65535

\* the value of the docstring: "hello" then "world" gives 0x4ab3
C13_Witness ==
    /\ rcv.pc = "done"
    /\ inp.a = Hello
    /\ inp.b = World
    /\ rcv.chained = 19123
    /\ rcv.whole = 19123

\* what the read of a waiting sender returns in the step it takes
SendChar == IF r2s # <<>> THEN <<Head(r2s)>> ELSE None

\* the length of a packet of the 128-byte mode with this trailer
PacketLen(crc_mode) == 3 + 1 + 128 + trailer_size(crc_mode)

\* C14: in the start sequence of send, NAK selects the checksum and the CRC
\* request selects the CRC, and every packet of the session carries the trailer
\* selected; EOT makes send return False at once and a CAN read when a CAN was
\* read before makes it return None at once, both without a write; any other
\* byte, a first CAN or a timeout adds one to the error count, and send reads
\* again without a write unless the count now exceeds retry.
C14_StartSequence ==
    /\ [][
            /\ (snd.pc = "start" /\ snd' # snd) =>
                  /\ (SendChar = NAK => snd'.crc_mode = 0 /\ snd'.pc \in {"resp", "eot"})
                  /\ (SendChar = CRC => snd'.crc_mode = 1 /\ snd'.pc \in {"resp", "eot"})
                  /\ (SendChar = EOT =>
                        /\ snd'.pc = "done" /\ snd'.ret = <<FALSE>> /\ snd'.exit = "eot_start"
                        /\ s_log' = s_log)
                  /\ (SendChar = CAN /\ snd.cancel = 1 =>
                        /\ snd'.pc = "done" /\ snd'.ret = None /\ snd'.exit = "can_start"
                        /\ s_log' = s_log)
                  /\ (SendChar = CAN /\ snd.cancel = 0 => snd'.cancel = 1)
                  /\ (SendChar \notin {NAK, CRC, EOT} /\ ~(SendChar = CAN /\ snd.cancel = 1) =>
                        /\ snd'.error_count = snd.error_count + 1
                        /\ \/ snd'.pc = "start" /\ s_log' = s_log /\ snd'.error_count <= Retry
                           \/ snd'.pc = "done" /\ snd'.exit = "retry_start"
                              /\ snd'.error_count > Retry)
            /\ (snd.pc \notin {"init", "start"} => snd'.crc_mode = snd.crc_mode)
       ]_vars
    /\ [](/\ (snd.pc \in {"init", "start"} => s_log = <<>>)
          /\ \A i \in 1..Len(s_log) :
                IsPacket(s_log[i]) => s_log[i].len = PacketLen(snd.crc_mode)
          /\ (snd.pc = "resp" =>
                verify_recv_checksum(snd.crc_mode, Rest(snd.packet, 3)).valid))

\* a session opened by a CAN and then NAK sent a data block with the one-byte
\* trailer
C14_Witness ==
    /\ snd.pc = "resp"
    /\ snd.crc_mode = 0
    /\ snd.kind = "data"
    /\ Len(snd.packet) = 133
    /\ snd.error_count = 0
    /\ snd.cancel = 1

\* C15 as stated: after retry reads of the start sequence that gave neither
\* NAK nor the CRC request, send does not read again.
C15_AtMostRetryReads ==
    ~(snd.pc = "start" /\ snd.error_count >= Retry)

\* C15, what send does: in the start sequence the error count is the number of
\* reads made; send reads again while it is at most retry, and it writes the
\* two CAN bytes of abort and returns False at the read that makes it
\* retry + 1.
C15_StartReads ==
    /\ (snd.pc = "start" => snd.error_count <= Retry /\ s_log = <<>>)
    /\ (snd.pc = "done" /\ snd.exit = "retry_start") =>
          /\ snd.error_count = Retry + 1
          /\ s_log = <<CanEntry, CanEntry>>
          /\ snd.ret = <<FALSE>>

\* the start sequence ended by the retry budget
C15_Witness ==
    /\ snd.pc = "done"
    /\ snd.exit = "retry_start"
    /\ snd.error_count = Retry + 1
    /\ EndsWithAbort(2)

\* ------------------------------------------------- the receiver, taken alone
CrcEntry == LogEntry(Put(CRC, "ctl"))

\* n times the entry e
Times(n, e) == [i \in 1..n |-> e]

\* the CRC requests recv wrote
CrcRequests == Cardinality({i \in 1..Len(r_log) : r_log[i] = CrcEntry})

\* C16: in the start phase of recv every request is one byte, the CRC request
\* when CRC mode is still on and fewer than retry // 2 errors are counted, NAK
\* otherwise, and a NAK turns CRC mode off; once CRC mode is off it stays off
\* for the rest of the call, blocks included, and no CRC request is written
\* again; recv stays in
\* the start phase only below retry errors, and at retry errors it writes CAN
\* CAN and returns None; when no CAN was read before that, it has written
\* retry // 2 CRC requests (none when the checksum was asked for), then NAK up
\* to retry requests in all, then the abort.
C16_StartRequests ==
    /\ [][(rcv.pc \in {"init", "start"} /\ rcv'.pc = "start" /\ rcv' # rcv) =>
             LET crc == rcv.crc_mode = 1 /\ rcv'.error_count < Retry \div 2
             IN  /\ r_log' = r_log \o <<IF crc THEN CrcEntry ELSE NakEntry>>
                 /\ rcv'.crc_mode = IF crc THEN 1 ELSE 0]_vars
    /\ [][(rcv.pc # "init" /\ rcv.crc_mode = 0) =>
             /\ rcv'.crc_mode = 0
             /\ \A i \in 1..Len(r_log') : i > Len(r_log) => r_log'[i] # CrcEntry]_vars
    /\ [](/\ rcv.pc = "start" =>
                 /\ rcv.error_count < Retry
                 /\ (\E i \in 1..Len(r_log) : r_log[i] = NakEntry) => rcv.crc_mode = 0
          /\ rcv.exit = "retry_start" =>
                 /\ rcv.ret = None
                 /\ rcv.error_count = Retry
                 /\ Len(r_log) >= 2
                 /\ SubSeq(r_log, Len(r_log) - 1, Len(r_log)) = Times(2, CanEntry)
                 /\ rcv.cancel = 0 =>
                        /\ CrcRequests \in {0, Retry \div 2}
                        /\ r_log = Times(CrcRequests, CrcEntry)
                                   \o Times(Retry - CrcRequests, NakEntry)
                                   \o Times(2, CanEntry))

\* recv asked for CRC mode, its peer never wrote a CAN, and recv gave up
C16_Witness ==
    /\ rcv.exit = "retry_start"
    /\ rcv.cancel = 0
    /\ CrcRequests = Retry \div 2
    /\ CrcRequests > 0
    /\ Len(r_log) = Retry + 2

\* C17: when recv reads a second CAN in a row in its start phase, it returns -1
\* and the last thing it wrote is the request that the CAN answered.
C17_CanceledAtStart ==
    (rcv.pc = "done" /\ rcv.exit = "can_start") =>
        /\ rcv.ret = <<-1>>
        /\ r_log[Len(r_log)] \in {CrcEntry, NakEntry}

\* recv read CAN, CAN in its start phase and returned None, the value of a failure
C17_Witness ==
    /\ rcv.pc = "done"
    /\ rcv.exit = "can_start"
    /\ rcv.ret = None
    /\ r_log[Len(r_log)] \in {CrcEntry, NakEntry}

\* C18: send returns because its peer canceled only when the last two bytes it
\* read are both CAN.
C18_OnlyConsecutiveCan ==
    (snd.pc = "done" /\ snd.exit \in {"can_start", "can_block"}) => env.sent = CAN \o CAN

\* send read a CAN in its start sequence, then the NAK that opened the
\* transfer, then one CAN in answer to its first block, and returned
C18_Witness ==
    /\ snd.pc = "done"
    /\ snd.exit = "can_block"
    /\ env.sent = NAK \o CAN
    /\ env.peer = PeerBudget - 3
    /\ Len(s_log) = 1

\* the log entry of one ACK byte
AckOut == LogEntry(Put(ACK, "ctl"))

\* the NAK bytes recv wrote since its last ACK
NaksSinceAck ==
    LET acks == {i \in 1..Len(r_log) : r_log[i] = AckOut}
        from == IF acks = {} THEN 0 ELSE CHOOSE i \in acks : \A j \in acks : j <= i
    IN  Cardinality({i \in (from + 1)..Len(r_log) : r_log[i] = NakEntry})

\* what one step of recv does to its counter of retransmission requests
RetransStep ==
    /\ (rcv.pc = "start" /\ rcv'.pc \notin {"start", "done"})
        => rcv'.retrans = Retry + 1
    /\ (rcv.pc \in {"seq1", "seq2"} /\ rcv' # rcv)
        => /\ rcv'.retrans = rcv.retrans
           /\ rcv'.pc = IF s2r # <<>> /\ (rcv.pc = "seq1" \/
                            (rcv.seq1 = 255 - Head(s2r) /\ rcv.seq1 = rcv.sequence))
                        THEN (IF rcv.pc = "seq1" THEN "seq2" ELSE "data")
                        ELSE "skip"
    /\ (rcv.pc = "skip" /\ rcv' # rcv)
        => (rcv'.pc = "purge" /\ rcv'.retrans = rcv.retrans /\ r_log' = r_log)
    /\ (rcv.pc = "data" /\ rcv' # rcv)
        => \/ rcv'.pc = "purge" /\ rcv'.retrans = rcv.retrans /\ r_log' = r_log
           \/ /\ rcv'.pc # "purge"
              /\ rcv'.retrans = Retry + 1
              /\ Len(s2r) >= data_size(rcv)
              /\ verify_recv_checksum(rcv.crc_mode,
                                      SubSeq(s2r, 1, data_size(rcv))).valid
              /\ r_log' = r_log \o <<AckOut>>
    /\ (rcv.pc = "purge" /\ rcv'.pc # "purge")
        => /\ rcv'.retrans = rcv.retrans - 1
           /\ IF rcv'.retrans > 0
              THEN rcv'.pc # "done" /\ r_log' = r_log \o <<NakEntry>>
              ELSE /\ rcv'.pc = "done"
                   /\ rcv'.exit = "retry_block"
                   /\ rcv'.ret = None
                   /\ r_log' = r_log \o Times(2, CanEntry)
    /\ rcv.pc \notin {"init", "start", "data", "purge"}
        => rcv'.retrans = rcv.retrans

\* C19: the counter of recv is retry + 1 when the block loop begins; a block
\* whose sequence bytes are missing or wrong is read to its end and purged, a
\* block read either is accepted, with an ACK and the counter back at
\* retry + 1, or is purged with the counter as it was; the end of a purge takes
\* one from the counter and then writes NAK and goes on if it is still
\* positive, or writes CAN CAN and returns None if it is not; nothing else
\* changes the counter, which stays between 1 and retry + 1 while recv runs,
\* and recv has written at least retry NAK since its last ACK when it gives up.
C19_Retransmissions ==
    /\ [][RetransStep]_vars
    /\ [](/\ rcv.pc \notin {"init", "start", "done"}
                => rcv.retrans \in 1..(Retry + 1)
          /\ (rcv.pc = "done" /\ rcv.exit = "retry_block")
                => (rcv.retrans = 0 /\ NaksSinceAck >= Retry)
          /\ (rcv.pc = "done" /\ rcv.exit \in {"eot", "can_block", "retry_char", "retry_junk"})
                => rcv.retrans >= 1)

\* recv accepted a block, then retry + 1 blocks in a row failed, and it gave up
C19_Witness ==
    /\ rcv.pc = "done"
    /\ rcv.exit = "retry_block"
    /\ rcv.retrans = 0
    /\ \E i \in 1..Len(r_log) : r_log[i] = AckOut
    /\ NaksSinceAck = Retry

\* the log entry of one EOT byte
EotEntry == LogEntry(Put(EOT, "ctl"))

\* C20: once send has written an EOT, it has read its stream to the end and
\* sent every byte of it in a data block.
C20_EotAfterEndOfStream ==
    (\E i \in 1..Len(s_log) : s_log[i] = EotEntry) =>
        /\ snd.pos = inp.stream.len
        /\ snd.total_packets >= 1
        /\ inp.stream.len > 0 => \E i \in 1..Len(s_log) : s_log[i].kind = "data"

\* send was given the empty string for md5 and a stream that is not empty: it
\* wrote EOT as the first thing, read nothing of the stream, and returned True
C20_Witness ==
    /\ inp.md5_s = <<>>
    /\ inp.stream.len > 0
    /\ snd.pc = "done"
    /\ snd.ret = <<TRUE>>
    /\ snd.pos = 0
    /\ s_log = <<EotEntry>>

\* what one step of recv does to its block size: the step that leaves the
\* start phase sets it from the start byte just read, no later step changes it
BlockSizeStep ==
    /\ (rcv.pc = "start" /\ rcv'.pc \notin {"start", "done"})
        => /\ s2r # <<>>
           /\ <<Head(s2r)>> \in {SOH, STX}
           /\ rcv'.packet_size = IF <<Head(s2r)>> = SOH THEN 128 ELSE 8192
           /\ rcv'.is_stx = IF <<Head(s2r)>> = SOH THEN 0 ELSE 1
    /\ (rcv.pc \notin {"init", "start", "done"} /\ rcv'.pc # "init")
        => (rcv'.packet_size = rcv.packet_size /\ rcv'.is_stx = rcv.is_stx)

\* C21: the block size of a call of recv is the one of the first start byte the
\* call reads, 128 for SOH and 8192 for STX, whatever earlier calls on the same
\* object read, and it does not change during the call.
C21_BlockSizeFromStartByte == [][BlockSizeStep]_vars

\* an earlier call locked the mode to small blocks; this call read STX as its
\* first start byte and reads blocks of 128 bytes
C21_Witness ==
    /\ rcv.pc = "seq1"
    /\ rcv.tops = 1
    /\ rcv.char = STX
    /\ rcv.mode_set
    /\ rcv.packet_size = 128
    /\ rcv.is_stx = 0

\* C21, within one call: once the block loop has begun the block size does not
\* change, and on an object whose mode is not locked the first start byte
\* decides it.
C21_FixedWithinCall ==
    [][/\ (rcv.pc \notin {"init", "start", "done"} /\ rcv'.pc # "init")
           => (rcv'.packet_size = rcv.packet_size /\ rcv'.is_stx = rcv.is_stx)
       /\ (rcv.pc = "start" /\ ~rcv.mode_set /\ rcv'.pc \notin {"start", "done"})
           => rcv'.packet_size = IF <<Head(s2r)>> = SOH THEN 128 ELSE 8192]_vars

\* ------------------------------------------------------- over a lossy line
\* what one step of recv may append and acknowledge: it appends to the sink and
\* writes the ACK of a block only in the read of a block whose two sequence
\* bytes were the expected sequence, once for the block, and then expects the
\* next sequence; the ACK of the md5 block appends nothing
AppendStep ==
    /\ (sink' # sink \/ (r_log' # r_log /\ r_log'[Len(r_log')] = AckOut /\ rcv'.pc # "done"))
        => /\ rcv.pc = "data"
           /\ rcv.seq1 = rcv.sequence
           /\ rcv.seq2 = rcv.sequence
           /\ r_log' = r_log \o <<AckOut>>
           /\ rcv'.sequence = (rcv.sequence + 1) % 256
           /\ sink'.len = IF rcv.sequence = 0 /\ ~rcv.md5_received
                          THEN sink.len
                          ELSE Min(sink.len + 128, inp.stream.len)
    /\ rcv.pc \notin {"init", "start", "data"} => rcv'.sequence = rcv.sequence

\* C22: over a line that loses and damages packets and answers, with reads that
\* time out and blocks sent again, the sink is always the first bytes of the
\* stream, as many as the data blocks accepted so far hold; when the md5 values
\* differ the sequence recv expects is the number of blocks it accepted, the
\* md5 block included; recv is in the read of a block
\* only after two sequence bytes equal to the expected sequence, and only that
\* read appends to the sink or acknowledges a block.
C22_SinkIsPrefixOverLossyLine ==
    /\ [][AppendStep]_vars
    /\ [](/\ SinkIsPrefix
          /\ sink.len = Min(128 * rcv.success_count, inp.stream.len)
          /\ (rcv.pc \notin {"init", "start"} /\ inp.md5_r # inp.md5_s)
                => rcv.sequence = RecvAccepted % 256
          /\ rcv.pc = "data" => (rcv.seq1 = rcv.sequence /\ rcv.seq2 = rcv.sequence))

\* recv refused a block that came a second time, and the transfer went on to
\* its end with the whole stream in the sink
C22_Witness ==
    /\ Done
    /\ rcv.exit = "eot"
    /\ SinkIsStream
    /\ sink.len = 129
    /\ env.peer < TimeoutBudget
    /\ rcv.retrans = Retry + 1
    /\ NaksAfterStart >= 1

\* C23: when recv has read the start byte of a block and is about to read the
\* block, the integrity mode it verifies with is the one send frames with.
C23_ModeAgreed ==
    (rcv.pc \in {"seq1", "seq2", "data"} /\ snd.pc \notin {"init", "start"})
        => rcv.crc_mode = snd.crc_mode

\* nothing was lost or changed on the line: recv asked for CRC, timed out and
\* fell back to NAK and the checksum; send then read the CRC request, which
\* came first, and framed its first block with a CRC
C23_Witness ==
    /\ ~env.hit
    /\ rcv.pc = "seq1"
    /\ rcv.tops = 1
    /\ rcv.crc_mode = 0
    /\ snd.pc = "resp"
    /\ snd.crc_mode = 1
    /\ snd.tx = 1
    /\ r2s = NAK

\* what the ACK of a data block comes after: the step that writes it has
\* appended the content of the block to the sink
AckStep ==
    (rcv.pc = "data" /\ r_log' = r_log \o <<AckOut>> /\ (rcv.sequence # 0 \/ rcv.md5_received))
        => /\ sink'.len = Min(sink.len + 128, inp.stream.len)
           /\ sink'.same
           /\ rcv'.success_count = rcv.success_count + 1

\* C24: the blocks send counts as acknowledged are never more than the blocks
\* recv accepted, the md5 block included; recv writes the ACK of a data block
\* in the step that appended its content; and when send has returned True the
\* sink holds the whole stream and recv has returned through EOT.
C24_AckedIsAccepted ==
    /\ [][AckStep]_vars
    /\ [](/\ snd.pc \notin {"init", "start"} => snd.success_count <= RecvAccepted
          /\ snd.ret = <<TRUE>> => (SinkIsStream /\ rcv.pc = "done" /\ rcv.exit = "eot"))

\* nothing was lost or changed on the line; recv fell back to the checksum and
\* send framed with a CRC; recv accepted the md5 block, took the last byte of
\* its CRC for an EOT and returned; send counts two blocks as acknowledged
C24_Witness ==
    /\ ~env.hit
    /\ rcv.pc = "done"
    /\ rcv.exit = "eot"
    /\ rcv.crc_mode = 0
    /\ snd.crc_mode = 1
    /\ RecvAccepted = 1
    /\ snd.success_count = 2
    /\ sink.len = 0

\* C25: when send or recv has returned, the canceled flag of its object is
\* False.
C25_CancelFlagCleared ==
    /\ snd.pc = "done" => ~snd.canceled
    /\ rcv.pc = "done" => ~rcv.canceled

\* the flag of the sender was set while send waited for the ACK of its EOT:
\* send returned True and the flag is still set
C25_Witness ==
    /\ snd.pc = "done"
    /\ snd.exit = "ack_eot"
    /\ snd.ret = <<TRUE>>
    /\ snd.canceled
    /\ SinkIsStream

\* C25, the path that does clear the flag: a call that returns through the
\* cancellation at the top of its block loop leaves the flag False.
C25_ClearedOnCancelPath ==
    /\ (snd.pc = "done" /\ snd.exit = "user_cancel") => ~snd.canceled
    /\ (rcv.pc = "done" /\ rcv.exit = "user_cancel") => ~rcv.canceled

\* --------------------------------------------------- one acknowledgement lost
\* a read of send returns None because nothing came in time
SendTimesOut ==
    /\ snd.pc \in {"start", "resp", "eot"}
    /\ r2s = <<>>
    /\ SendApply(CASE snd.pc = "start" -> send_start(snd, None, inp.stream, inp.md5_s)
                   [] snd.pc = "resp" -> send_resp(snd, None, inp.stream, inp.md5_s)
                   [] snd.pc = "eot" -> send_eot_resp(snd, None), 0)

\* a read of recv returns None because too little came in time; what had come
\* of a longer read is lost; in the start loop the putc of the next request
\* may fail
RecvTimesOut ==
    /\ RecvWaitsForBytes
    /\ \E put_ok \in BOOLEAN :
          RecvApply(CASE rcv.pc = "start" -> recv_start(rcv, None, put_ok)
                      [] rcv.pc = "rd_outer" -> recv_rd_outer(rcv, None)
                      [] rcv.pc = "rd_inner" -> recv_rd_inner(rcv, None)
                      [] rcv.pc = "seq1" -> recv_seq1(rcv, None)
                      [] rcv.pc = "seq2" -> recv_seq2(rcv, None)
                      [] rcv.pc = "data" -> recv_data(rcv, None, inp.md5_r)
                      [] rcv.pc = "skip" -> recv_skip(rcv, None), Len(s2r))

\* a read times out only when both sides wait and nothing is in flight
QuietTimeout ==
    /\ Stuck
    /\ SendTimesOut \/ RecvTimesOut

\* the line loses the ACK of a data block
LoseAck ==
    /\ env.corrupt > 0
    /\ r2s = ACK
    /\ rcv.pc # "done"
    /\ rcv.success_count >= 1
    /\ r2s' = <<>>
    /\ env' = [env EXCEPT !.corrupt = @ - 1, !.hit = TRUE]
    /\ UNCHANGED <<inp, snd, rcv, s2r, sink, s_log, r_log>>

InitLostAck ==
    InitWith({Content(n, 7) : n \in {1, 129}}, {"xmodem"}, {DigestA, DigestB}, {0, 1},
             {[Env("pair") EXCEPT !.corrupt = 1]})

NextLostAck ==
    \/ NextPair
    \/ RecvInnerChar
    \/ RecvSkipRead
    \/ RecvPurge
    \/ LoseAck
    \/ QuietTimeout

SpecLostAck == InitLostAck /\ [][NextLostAck]_vars

\* C26: when the ACK of one data block was lost and nothing else, and both
\* calls have returned, send returned True, recv returned through EOT and the
\* sink holds the whole stream.
C26_RecoversFromLostAck ==
    (Done /\ env.hit) => (snd.ret = <<TRUE>> /\ rcv.exit = "eot" /\ SinkIsStream)

\* the ACK of the first of two data blocks was lost: send sent the block again
\* until its retries were used up, recv refused every copy, and both failed
C26_Witness ==
    /\ Done
    /\ env.hit
    /\ inp.stream.len = 129
    /\ snd.ret = <<FALSE>>
    /\ snd.exit = "retry_block"
    /\ rcv.ret = None
    /\ sink.len = 128

\* C26, what the code does: after the loss no block is accepted any more, and
\* send never returns True.
C26_NeverRecovers ==
    [][env.hit => (rcv'.success_count = rcv.success_count /\ snd'.ret # <<TRUE>>)]_vars

\* ------------------------------------------------------------- termination
\* one role alone, send or recv: its peer writes a bounded number of bytes and
\* blocks, and every read of the role may time out, any number of times
AloneBudget == Retry + 1

InitAlone ==
    \/ InitWith({Content(n, 7) : n \in {0, 129}}, {"xmodem"}, {DigestB}, {1},
                {[Env("send") EXCEPT !.peer = AloneBudget]})
    \/ InitWith({Content(129, 7)}, {"xmodem"}, {DigestB}, {0, 1},
                {[Env("recv") EXCEPT !.peer = AloneBudget]})

AloneSend == env.link = "send" /\ SendCall

AloneRecv == env.link = "recv" /\ RecvCall

\* the steps of the role that runs: each read returns, with bytes or with None
AloneStep ==
    \/ AloneSend
    \/ SendStartRead
    \/ SendRespRead
    \/ SendEotRead
    \/ SendTimesOut
    \/ AloneRecv
    \/ RecvStartRead
    \/ RecvNextChar
    \/ RecvInnerChar
    \/ RecvSeq1Read
    \/ RecvSeq2Read
    \/ RecvDataRead
    \/ RecvSkipRead
    \/ RecvPurge
    \/ RecvJunkDrain
    \/ RecvTimesOut

NextAlone ==
    \/ AloneSend
    \/ SendStartRead
    \/ SendRespRead
    \/ SendEotRead
    \/ SendTimesOut
    \/ PeerByte
    \/ AloneRecv
    \/ RecvStartRead
    \/ RecvNextChar
    \/ RecvInnerChar
    \/ RecvSeq1Read
    \/ RecvSeq2Read
    \/ RecvDataRead
    \/ RecvSkipRead
    \/ RecvPurge
    \/ RecvJunkDrain
    \/ RecvTimesOut
    \/ RecvPeerByte
    \/ RecvPeerPacket

\* getc returns within its timeout, so the role that runs takes its next step;
\* the peer is free to write or not
SpecAlone == InitAlone /\ [][NextAlone]_vars /\ WF_vars(AloneStep)

\* the blocks send has to transmit: the md5 and the stream in blocks of 128
BlocksToSend == 1 + (inp.stream.len + 127) \div 128

\* the role that runs has returned
Returned == IF env.link = "send" THEN snd.pc = "done" ELSE rcv.pc = "done"

\* C27: a role whose peer writes finitely many bytes returns: the counters of
\* its loops stay within the retry budget (error_count at most retry + 1 in
\* send and in recv, retrans between 0 and retry + 1), send writes each block
\* and the EOT at most retry + 1 times, so at most
\* (blocks + 1) * (retry + 1) + 3 writes in all, and in every run the call
\* eventually returns one of its values.
C27_Terminates ==
    /\ [](/\ snd.error_count <= Retry + 1
          /\ rcv.error_count <= Retry + 1
          /\ rcv.retrans \in 0..(Retry + 1)
          /\ snd.pc = "resp" => snd.tx <= Retry + 1
          /\ Len(s_log) <= (BlocksToSend + 1) * (Retry + 1) + 3
          /\ snd.pc = "done" => snd.ret \in {<<TRUE>>, <<FALSE>>, None}
          /\ rcv.pc = "done" => (rcv.ret = None \/ rcv.ret = <<rcv.income_size>>))
    /\ <>Returned

\* send returned after a single CAN, a wrong byte and reads that timed out;
\* its peer had no byte left to write
C27_Witness ==
    /\ env.link = "send"
    /\ snd.pc = "done"
    /\ snd.exit = "retry_block"
    /\ snd.cancel = 1
    /\ snd.error_count = Retry + 1
    /\ snd.tx > 1
    /\ env.peer = 0

====
